---- MODULE Spec2Model ----
(***************************************************************************)
(* Event attributes emitted for Object Store Gateway.                      *)
(*                                                                         *)
(* The model covers the key and event-type literals (attribute_consts.rs,  *)
(* attribute_keys.rs, attribute_event_types.rs) and the fluent builder     *)
(* OsGatewayAttributeGenerator (attribute_generator.rs): its two public    *)
(* constructors, the public setter with_access_grant_id, the derived Clone *)
(* and the consuming into_iter; and the second builder of the             *)
(* repository, OsGatewayEventAttributes (lib.rs), which keeps its          *)
(* attributes in a HashMap.                                                *)
(*                                                                         *)
(* Rust Strings are TLA+ strings.  A BTreeMap<String, String> is a         *)
(* function from the set of its keys to their values; the order in which   *)
(* the map is iterated is computed from the byte-wise order of the keys.   *)
(***************************************************************************)
EXTENDS Integers, Sequences, FiniteSets, TLC

(***************************************************************************)
(* attribute_consts.rs                                                     *)
(***************************************************************************)
EVENT_TYPE_KEY == "object_store_gateway_event_type"

SCOPE_ADDRESS_KEY == "object_store_gateway_scope_address"

TARGET_ACCOUNT_KEY == "object_store_gateway_target_account_address"

ACCESS_GRANT_ID_KEY == "object_store_gateway_access_grant_id"

ACCESS_GRANT_VALUE == "access_grant"

ACCESS_REVOKE_VALUE == "access_revoke"

(***************************************************************************)
(* attribute_keys.rs: the module keeps private copies of the four key      *)
(* literals and exposes them through the record OS_GATEWAY_KEYS.           *)
(***************************************************************************)
attribute_keys_EVENT_TYPE_KEY == "object_store_gateway_event_type"

attribute_keys_SCOPE_ADDRESS_KEY == "object_store_gateway_scope_address"

attribute_keys_TARGET_ACCOUNT_KEY == "object_store_gateway_target_account_address"

attribute_keys_ACCESS_GRANT_ID_KEY == "object_store_gateway_access_grant_id"

\* A slip: the scope address and target account fields name each other's key.
OS_GATEWAY_KEYS_fields_swapped ==
    [ event_type      |-> attribute_keys_EVENT_TYPE_KEY,
      scope_address   |-> attribute_keys_TARGET_ACCOUNT_KEY,
      target_account  |-> attribute_keys_SCOPE_ADDRESS_KEY,
      access_grant_id |-> attribute_keys_ACCESS_GRANT_ID_KEY ]

OS_GATEWAY_KEYS ==
    [ event_type      |-> attribute_keys_EVENT_TYPE_KEY,
      scope_address   |-> attribute_keys_SCOPE_ADDRESS_KEY,
      target_account  |-> attribute_keys_TARGET_ACCOUNT_KEY,
      access_grant_id |-> attribute_keys_ACCESS_GRANT_ID_KEY ]

(***************************************************************************)
(* attribute_event_types.rs: private copies of the two event-type values   *)
(* and the record OS_GATEWAY_EVENT_TYPES.                                  *)
(***************************************************************************)
attribute_event_types_ACCESS_GRANT_VALUE == "access_grant"

attribute_event_types_ACCESS_REVOKE_VALUE == "access_revoke"

\* A slip: the two fields name each other's value.
OS_GATEWAY_EVENT_TYPES_fields_swapped ==
    [ access_grant  |-> attribute_event_types_ACCESS_REVOKE_VALUE,
      access_revoke |-> attribute_event_types_ACCESS_GRANT_VALUE ]

OS_GATEWAY_EVENT_TYPES ==
    [ access_grant  |-> attribute_event_types_ACCESS_GRANT_VALUE,
      access_revoke |-> attribute_event_types_ACCESS_REVOKE_VALUE ]

(***************************************************************************)
(* Bounds and input sets.                                                  *)
(***************************************************************************)
\* The largest number of with_access_grant_id calls made on one generator.
MaxIdCalls == 2

\* The generator instances that a caller may hold at the same time.
Generators == {"g1", "g2"}

\* Arguments passed as scope_address and target_account_address.
Addresses == {"", "access_revoke"}

\* Arguments passed as access_grant_id.
GrantIds == {"", "object_store_gateway_access_grant_id"}

(***************************************************************************)
(* Order of Strings: Rust compares Strings byte by byte, a proper prefix   *)
(* being smaller.  ByteOrder lists the bytes used by the literals and the  *)
(* inputs in ascending order of their ASCII code ('_' is 95, 'a' is 97).   *)
(***************************************************************************)
ByteOrder == "_abcdefghijklmnopqrstuvwxyz"

Byte(c) == CHOOSE i \in 1..Len(ByteOrder) : SubSeq(ByteOrder, i, i) = c

\* a < b, given that a and b agree on their first i - 1 bytes.
RECURSIVE str_lt_from(_, _, _)
str_lt_from(a, b, i) ==
    IF i > Len(b) THEN FALSE
    ELSE IF i > Len(a) THEN TRUE
    ELSE IF SubSeq(a, i, i) = SubSeq(b, i, i) THEN str_lt_from(a, b, i + 1)
    ELSE Byte(SubSeq(a, i, i)) < Byte(SubSeq(b, i, i))

\* <String as Ord>::lt
str_lt(a, b) == str_lt_from(a, b, 1)

(***************************************************************************)
(* BTreeMap<String, String>                                                *)
(***************************************************************************)
BTreeMap_new == [k \in {} |-> ""]

\* BTreeMap::insert: the key is added, or the value of a present key replaced.
BTreeMap_insert(map, key, value) ==
    [k \in DOMAIN map \cup {key} |-> IF k = key THEN value ELSE map[k]]

BTreeMap_len(map) == Cardinality(DOMAIN map)

\* The smallest of a non-empty set of keys.
BTreeMap_first_key(keys) ==
    CHOOSE k \in keys : \A j \in keys \ {k} : str_lt(k, j)

\* The pairs of the map whose keys are in keys, in ascending order of key.
RECURSIVE BTreeMap_range(_, _)
BTreeMap_range(map, keys) ==
    IF keys = {} THEN <<>>
    ELSE LET k == BTreeMap_first_key(keys)
         IN  <<<<k, map[k]>>>> \o BTreeMap_range(map, keys \ {k})

\* BTreeMap::into_iter: the (key, value) pairs in ascending order of key.
BTreeMap_into_iter(map) == BTreeMap_range(map, DOMAIN map)

(***************************************************************************)
(* OsGatewayAttributeGenerator (attribute_generator.rs).  The struct has   *)
(* the single field attributes, so a generator value is its map.           *)
(***************************************************************************)
\* A slip: a new generator starts with a placeholder for the access grant id.
new_with_placeholder_id == BTreeMap_insert(BTreeMap_new, ACCESS_GRANT_ID_KEY, "")

new == BTreeMap_new

\* A slip: the value is validated and an empty one is not stored.
insert_attribute_skipping_empty(self, key, value) ==
    IF value = "" THEN self
    ELSE [k \in DOMAIN self \cup {key} |-> IF k = key THEN value ELSE self[k]]

\* A slip: a value given for a key that is already present is appended to
\* the value held.
insert_attribute_appending(self, key, value) ==
    [k \in DOMAIN self \cup {key} |->
        IF k # key THEN self[k]
        ELSE IF key \in DOMAIN self THEN self[key] \o value ELSE value]

\* A slip: the value of a key that is already present is kept.
insert_attribute_keep_existing(self, key, value) ==
    [k \in DOMAIN self \cup {key} |-> IF k \in DOMAIN self THEN self[k] ELSE value]

insert_attribute(self, key, value) == BTreeMap_insert(self, key, value)

with_event_type(self, event_type) ==
    insert_attribute(self, EVENT_TYPE_KEY, event_type)

with_scope_address(self, scope_address) ==
    insert_attribute(self, SCOPE_ADDRESS_KEY, scope_address)

\* A slip: the target account is stored under the scope address key.
with_target_account_address_wrong_key(self, target_account_address) ==
    insert_attribute(self, SCOPE_ADDRESS_KEY, target_account_address)

with_target_account_address(self, target_account_address) ==
    insert_attribute(self, TARGET_ACCOUNT_KEY, target_account_address)

\* A slip: the id is stored under the scope address key.
with_access_grant_id_wrong_key(self, access_grant_id) ==
    insert_attribute(self, SCOPE_ADDRESS_KEY, access_grant_id)

with_access_grant_id(self, access_grant_id) ==
    insert_attribute(self, ACCESS_GRANT_ID_KEY, access_grant_id)

\* A slip: the grant constructor copied from the revoke constructor.
access_grant_as_revoke(scope_address, target_account_address) ==
    with_target_account_address(
        with_scope_address(
            with_event_type(new, ACCESS_REVOKE_VALUE),
            scope_address),
        target_account_address)

access_grant(scope_address, target_account_address) ==
    with_target_account_address(
        with_scope_address(
            with_event_type(new, ACCESS_GRANT_VALUE),
            scope_address),
        target_account_address)

access_revoke(scope_address, target_account_address) ==
    with_target_account_address(
        with_scope_address(
            with_event_type(new, ACCESS_REVOKE_VALUE),
            scope_address),
        target_account_address)

\* A slip: the attributes are kept in a HashMap, whose iteration may visit the
\* pairs in any order and differently for each map.
into_iter_any_order(self) ==
    LET pairs == {<<k, self[k]>> : k \in DOMAIN self}
    IN  {items \in [1..BTreeMap_len(self) -> pairs] :
            \A i, j \in 1..BTreeMap_len(self) : i # j => items[i] # items[j]}

\* The sequences that into_iter may hand out for a generator: the map's
\* iteration collected into a Vec.  A BTreeMap has exactly one iteration order.
into_iter(self) == {BTreeMap_into_iter(self)}

(***************************************************************************)
(* State.                                                                  *)
(*   pc[g]          where generator g is in its life: "Uninitialized"      *)
(*                  (no value exists yet), "Populated" (a value owned by   *)
(*                  the caller) or "Finalized" (moved into into_iter)      *)
(*   attributes[g]  the field attributes of generator g                    *)
(*   output[g]      the Vec collected from into_iter of g                  *)
(*   calls[g]       the public calls that produced g, oldest first         *)
(***************************************************************************)
VARIABLES pc, attributes, output, calls

vars == <<pc, attributes, output, calls>>

Init ==
    /\ pc = [g \in Generators |-> "Uninitialized"]
    /\ attributes = [g \in Generators |-> new]
    /\ output = [g \in Generators |-> <<>>]
    /\ calls = [g \in Generators |-> <<>>]

\* let g = OsGatewayAttributeGenerator::access_grant(scope, target)
AccessGrant(g, scope_address, target_account_address) ==
    /\ pc[g] = "Uninitialized"
    /\ attributes' = [attributes EXCEPT
                         ![g] = access_grant(scope_address, target_account_address)]
    /\ pc' = [pc EXCEPT ![g] = "Populated"]
    /\ calls' = [calls EXCEPT
                    ![g] = <<<<"access_grant", scope_address, target_account_address>>>>]
    /\ UNCHANGED output

\* let g = OsGatewayAttributeGenerator::access_revoke(scope, target)
AccessRevoke(g, scope_address, target_account_address) ==
    /\ pc[g] = "Uninitialized"
    /\ attributes' = [attributes EXCEPT
                         ![g] = access_revoke(scope_address, target_account_address)]
    /\ pc' = [pc EXCEPT ![g] = "Populated"]
    /\ calls' = [calls EXCEPT
                    ![g] = <<<<"access_revoke", scope_address, target_account_address>>>>]
    /\ UNCHANGED output

\* The number of with_access_grant_id calls made so far on g.
IdCalls(g) == Cardinality({n \in 1..Len(calls[g]) : calls[g][n][1] = "with_access_grant_id"})

\* A slip: the setter validates its argument and has no result for an empty id.
WithAccessGrantId_rejecting_empty(g, access_grant_id) ==
    /\ access_grant_id # ""
    /\ pc[g] = "Populated"
    /\ IdCalls(g) < MaxIdCalls
    /\ attributes' = [attributes EXCEPT
                         ![g] = with_access_grant_id(attributes[g], access_grant_id)]
    /\ calls' = [calls EXCEPT
                    ![g] = Append(calls[g], <<"with_access_grant_id", access_grant_id>>)]
    /\ UNCHANGED <<pc, output>>

\* A slip: the setter works on a shared handle, so it can still be called on a
\* generator that into_iter has consumed.
WithAccessGrantId_after_move(g, access_grant_id) ==
    /\ pc[g] # "Uninitialized"
    /\ IdCalls(g) < MaxIdCalls
    /\ attributes' = [attributes EXCEPT
                         ![g] = with_access_grant_id(attributes[g], access_grant_id)]
    /\ calls' = [calls EXCEPT
                    ![g] = Append(calls[g], <<"with_access_grant_id", access_grant_id>>)]
    /\ UNCHANGED <<pc, output>>

\* g = g.with_access_grant_id(id): self is taken by value, so the call needs
\* a value the caller still owns.
WithAccessGrantId(g, access_grant_id) ==
    /\ pc[g] = "Populated"
    /\ IdCalls(g) < MaxIdCalls
    /\ attributes' = [attributes EXCEPT
                         ![g] = with_access_grant_id(attributes[g], access_grant_id)]
    /\ calls' = [calls EXCEPT
                    ![g] = Append(calls[g], <<"with_access_grant_id", access_grant_id>>)]
    /\ UNCHANGED <<pc, output>>

\* let h = g.clone() (derive(Clone)): h is a new value equal to g.
Clone(g, h) ==
    /\ pc[g] = "Populated"
    /\ pc[h] = "Uninitialized"
    /\ attributes' = [attributes EXCEPT ![h] = attributes[g]]
    /\ pc' = [pc EXCEPT ![h] = "Populated"]
    /\ calls' = [calls EXCEPT ![h] = calls[g]]
    /\ UNCHANGED output

\* g.into_iter().collect(): self is taken by value and the generator is gone.
IntoIter(g) ==
    /\ pc[g] = "Populated"
    /\ \E items \in into_iter(attributes[g]) :
           output' = [output EXCEPT ![g] = items]
    /\ pc' = [pc EXCEPT ![g] = "Finalized"]
    /\ calls' = [calls EXCEPT ![g] = Append(calls[g], <<"into_iter">>)]
    /\ UNCHANGED attributes

Next ==
    \/ \E g \in Generators, s \in Addresses, t \in Addresses : AccessGrant(g, s, t)
    \/ \E g \in Generators, s \in Addresses, t \in Addresses : AccessRevoke(g, s, t)
    \/ \E g \in Generators, id \in GrantIds : WithAccessGrantId(g, id)
    \/ \E g \in Generators, h \in Generators : Clone(g, h)
    \/ \E g \in Generators : IntoIter(g)

Spec == Init /\ [][Next]_vars

TypeOK ==
    /\ pc \in [Generators -> {"Uninitialized", "Populated", "Finalized"}]
    /\ \A g \in Generators : Len(output[g]) <= 4

(***************************************************************************)
(* HashMap<String, String> (lib.rs).  As for the BTreeMap, a map is a      *)
(* function from its keys to their values.                                 *)
(***************************************************************************)
HashMap_new == [k \in {} |-> ""]

\* HashMap::insert: the key is added, or the value of a present key replaced.
HashMap_insert(map, key, value) ==
    [k \in DOMAIN map \cup {key} |-> IF k = key THEN value ELSE map[k]]

HashMap_len(map) == Cardinality(DOMAIN map)

\* HashMap::into_iter visits the pairs in an arbitrary order, which depends on
\* the hasher state that each map draws when it is created: the sequences it
\* may yield are all the arrangements of the map's pairs.
HashMap_into_iter(map) ==
    LET pairs == {<<k, map[k]>> : k \in DOMAIN map}
    IN  {items \in [1..HashMap_len(map) -> pairs] :
            \A i, j \in 1..HashMap_len(map) : i # j => items[i] # items[j]}

(***************************************************************************)
(* OsGatewayEventAttributes (lib.rs), the second builder.  Its functions   *)
(* bear the names of the generator's; they are prefixed here.              *)
(***************************************************************************)
EventAttributes_new == HashMap_new

EventAttributes_insert_attribute(self, key, value) == HashMap_insert(self, key, value)

EventAttributes_with_scope_address(self, scope_address) ==
    EventAttributes_insert_attribute(self, SCOPE_ADDRESS_KEY, scope_address)

EventAttributes_with_target_account_address(self, target_account_address) ==
    EventAttributes_insert_attribute(self, TARGET_ACCOUNT_KEY, target_account_address)

EventAttributes_with_access_grant_id(self, access_grant_id) ==
    EventAttributes_insert_attribute(self, ACCESS_GRANT_ID_KEY, access_grant_id)

EventAttributes_access_grant(scope_address, target_account_address) ==
    EventAttributes_with_target_account_address(
        EventAttributes_with_scope_address(
            EventAttributes_insert_attribute(
                EventAttributes_new, EVENT_TYPE_KEY, ACCESS_GRANT_VALUE),
            scope_address),
        target_account_address)

\* A slip: the revoke constructor copied from the grant constructor.
EventAttributes_access_revoke_as_grant(scope_address, target_account_address) ==
    EventAttributes_with_target_account_address(
        EventAttributes_with_scope_address(
            EventAttributes_insert_attribute(
                EventAttributes_new, EVENT_TYPE_KEY, ACCESS_GRANT_VALUE),
            scope_address),
        target_account_address)

EventAttributes_access_revoke(scope_address, target_account_address) ==
    EventAttributes_with_target_account_address(
        EventAttributes_with_scope_address(
            EventAttributes_insert_attribute(
                EventAttributes_new, EVENT_TYPE_KEY, ACCESS_REVOKE_VALUE),
            scope_address),
        target_account_address)

\* The sequences that into_iter may hand out: the HashMap's iteration
\* collected into a Vec.
EventAttributes_into_iter(self) == HashMap_into_iter(self)

(***************************************************************************)
(* The two builders side by side.  Two OsGatewayEventAttributes values and *)
(* one OsGatewayAttributeGenerator are built by the same calls with the    *)
(* same arguments, as the tests of lib.rs and attribute_generator.rs do;   *)
(* each of them is then finalized on its own.                              *)
(***************************************************************************)
EventAttributes == {"e1", "e2"}

Builders == EventAttributes \cup {"g1"}

InitBoth ==
    /\ pc = [b \in Builders |-> "Uninitialized"]
    /\ attributes = [b \in Builders |->
                        IF b \in EventAttributes THEN EventAttributes_new ELSE new]
    /\ output = [b \in Builders |-> <<>>]
    /\ calls = [b \in Builders |-> <<>>]

\* access_grant(scope, target) of each implementation.
BothAccessGrant(scope_address, target_account_address) ==
    /\ \A b \in Builders : pc[b] = "Uninitialized"
    /\ attributes' = [b \in Builders |->
                         IF b \in EventAttributes
                         THEN EventAttributes_access_grant(scope_address, target_account_address)
                         ELSE access_grant(scope_address, target_account_address)]
    /\ pc' = [b \in Builders |-> "Populated"]
    /\ calls' = [b \in Builders |->
                    <<<<"access_grant", scope_address, target_account_address>>>>]
    /\ UNCHANGED output

\* access_revoke(scope, target) of each implementation.
BothAccessRevoke(scope_address, target_account_address) ==
    /\ \A b \in Builders : pc[b] = "Uninitialized"
    /\ attributes' = [b \in Builders |->
                         IF b \in EventAttributes
                         THEN EventAttributes_access_revoke(scope_address, target_account_address)
                         ELSE access_revoke(scope_address, target_account_address)]
    /\ pc' = [b \in Builders |-> "Populated"]
    /\ calls' = [b \in Builders |->
                    <<<<"access_revoke", scope_address, target_account_address>>>>]
    /\ UNCHANGED output

\* with_access_grant_id(id) on each builder, all of them still owned.
BothWithAccessGrantId(access_grant_id) ==
    /\ \A b \in Builders : pc[b] = "Populated" /\ IdCalls(b) < MaxIdCalls
    /\ attributes' = [b \in Builders |->
                         IF b \in EventAttributes
                         THEN EventAttributes_with_access_grant_id(attributes[b], access_grant_id)
                         ELSE with_access_grant_id(attributes[b], access_grant_id)]
    /\ calls' = [b \in Builders |->
                    Append(calls[b], <<"with_access_grant_id", access_grant_id>>)]
    /\ UNCHANGED <<pc, output>>

\* e.into_iter().collect() on an OsGatewayEventAttributes value.
EventAttributesIntoIter(e) ==
    /\ pc[e] = "Populated"
    /\ \E items \in EventAttributes_into_iter(attributes[e]) :
           output' = [output EXCEPT ![e] = items]
    /\ pc' = [pc EXCEPT ![e] = "Finalized"]
    /\ calls' = [calls EXCEPT ![e] = Append(calls[e], <<"into_iter">>)]
    /\ UNCHANGED attributes

NextBoth ==
    \/ \E s \in Addresses, t \in Addresses : BothAccessGrant(s, t)
    \/ \E s \in Addresses, t \in Addresses : BothAccessRevoke(s, t)
    \/ \E id \in GrantIds : BothWithAccessGrantId(id)
    \/ \E e \in EventAttributes : EventAttributesIntoIter(e)
    \/ IntoIter("g1")

SpecBoth == InitBoth /\ [][NextBoth]_vars

(***************************************************************************)
(* Vocabulary of the properties.                                           *)
(***************************************************************************)
\* The (key, value) pairs of a finalized sequence.
Pairs(items) == {items[n] : n \in 1..Len(items)}

\* The values a finalized sequence gives for a key.
ValuesOf(items, key) == {items[n][2] : n \in {m \in 1..Len(items) : items[m][1] = key}}

\* How many pairs of a finalized sequence have the key.
Occurrences(items, key) == Cardinality({n \in 1..Len(items) : items[n][1] = key})

\* The ids passed to with_access_grant_id on g, oldest first.
IdsSupplied(g) ==
    SelectSeq(calls[g], LAMBDA c : c[1] = "with_access_grant_id")

\* The event-type literal that the constructor of g stands for.
KindLiteral(g) ==
    IF calls[g][1][1] = "access_grant" THEN "access_grant" ELSE "access_revoke"

(***************************************************************************)
(* C1: a generator finalized right after access_grant(scope, target) or    *)
(* access_revoke(scope, target) yields exactly three pairs: the event type *)
(* key with the literal of the constructor used, the scope address key     *)
(* with scope and the target account key with target, both verbatim.       *)
(***************************************************************************)
C1_ConstructorYieldsThreePairs ==
    \A g \in Generators :
        (pc[g] = "Finalized" /\ Len(calls[g]) = 2) =>
            /\ Len(output[g]) = 3
            /\ Pairs(output[g]) =
                   { <<"object_store_gateway_event_type", KindLiteral(g)>>,
                     <<"object_store_gateway_scope_address", calls[g][1][2]>>,
                     <<"object_store_gateway_target_account_address", calls[g][1][3]>> }

\* A grant and a revoke, each finalized with no further call; the grant was
\* given the revoke literal as its scope.
C1_Witness ==
    /\ pc["g1"] = "Finalized"
    /\ calls["g1"] = << <<"access_grant", "access_revoke", "">>, <<"into_iter">> >>
    /\ pc["g2"] = "Finalized"
    /\ calls["g2"] = << <<"access_revoke", "", "access_revoke">>, <<"into_iter">> >>

(***************************************************************************)
(* C2: a generator finalized after a constructor and exactly one           *)
(* with_access_grant_id(id) yields exactly four pairs, and the pair with   *)
(* the access grant id key has the value id.                               *)
(***************************************************************************)
C2_OneIdYieldsFourPairs ==
    \A g \in Generators :
        (pc[g] = "Finalized" /\ Len(IdsSupplied(g)) = 1) =>
            /\ Len(output[g]) = 4
            /\ ValuesOf(output[g], "object_store_gateway_access_grant_id")
                   = {IdsSupplied(g)[1][2]}
            /\ Occurrences(output[g], "object_store_gateway_access_grant_id") = 1

\* A grant and a revoke, each finalized after one with_access_grant_id.
C2_Witness ==
    /\ pc["g1"] = "Finalized"
    /\ calls["g1"][1][1] = "access_grant"
    /\ IdsSupplied("g1") = << <<"with_access_grant_id", "object_store_gateway_access_grant_id">> >>
    /\ pc["g2"] = "Finalized"
    /\ calls["g2"][1][1] = "access_revoke"
    /\ IdsSupplied("g2") = << <<"with_access_grant_id", "">> >>

(***************************************************************************)
(* C3: after n >= 1 calls of with_access_grant_id the generator holds      *)
(* exactly four attributes and its access grant id is the id of the last   *)
(* call; a sequence finalized from it has one id pair, with that value.    *)
(***************************************************************************)
C3_LastIdWins ==
    \A g \in Generators :
        Len(IdsSupplied(g)) >= 1 =>
            LET last == IdsSupplied(g)[Len(IdsSupplied(g))][2]
            IN  /\ BTreeMap_len(attributes[g]) = 4
                /\ attributes[g]["object_store_gateway_access_grant_id"] = last
                /\ pc[g] = "Finalized" =>
                       /\ Len(output[g]) = 4
                       /\ ValuesOf(output[g], "object_store_gateway_access_grant_id") = {last}

\* A generator that was given two different ids, and another that was given
\* two different ids and then finalized.
C3_Witness ==
    \E g, h \in Generators :
        /\ g # h
        /\ pc[g] = "Populated"
        /\ Len(IdsSupplied(g)) >= 2
        /\ IdsSupplied(g)[1][2] # IdsSupplied(g)[Len(IdsSupplied(g))][2]
        /\ pc[h] = "Finalized"
        /\ Len(IdsSupplied(h)) >= 2
        /\ IdsSupplied(h)[1][2] # IdsSupplied(h)[Len(IdsSupplied(h))][2]

(***************************************************************************)
(* C4: the keys of every finalized sequence are strictly ascending in the  *)
(* byte-wise order of strings; with all four attributes present they are   *)
(* access_grant_id, event_type, scope_address, target_account_address,     *)
(* although the id is the last attribute to be inserted.                   *)
(***************************************************************************)
C4_KeysStrictlyAscending ==
    \A g \in Generators :
        pc[g] = "Finalized" =>
            LET keys == [n \in 1..Len(output[g]) |-> output[g][n][1]]
            IN  /\ \A n \in 1..(Len(keys) - 1) : str_lt(keys[n], keys[n + 1])
                /\ Len(keys) = 4 =>
                       keys = << "object_store_gateway_access_grant_id",
                                 "object_store_gateway_event_type",
                                 "object_store_gateway_scope_address",
                                 "object_store_gateway_target_account_address" >>

\* A generator finalized with all four attributes: the id, inserted last,
\* comes first.
C4_Witness ==
    \E g \in Generators :
        /\ pc[g] = "Finalized"
        /\ calls[g][Len(calls[g]) - 1][1] = "with_access_grant_id"
        /\ Len(output[g]) = 4
        /\ output[g][1][1] = "object_store_gateway_access_grant_id"

(***************************************************************************)
(* C5: two generators produced by the same calls with the same arguments   *)
(* finalize to the same sequence of pairs.                                 *)
(***************************************************************************)
C5_Deterministic ==
    \A g, h \in Generators :
        (pc[g] = "Finalized" /\ pc[h] = "Finalized" /\ calls[g] = calls[h]) =>
            output[g] = output[h]

\* Two generators finalized after the same constructor call and the same
\* two with_access_grant_id calls.
C5_Witness ==
    /\ pc["g1"] = "Finalized"
    /\ pc["g2"] = "Finalized"
    /\ calls["g1"] = calls["g2"]
    /\ Len(IdsSupplied("g1")) = 2
    /\ output["g1"] # <<>>

(***************************************************************************)
(* C6: a generator, and the sequence finalized from it, has a pair with    *)
(* the access grant id key if and only if with_access_grant_id was called  *)
(* on it; without a call there is no such pair, whatever its value.        *)
(***************************************************************************)
C6_IdPresentIffSupplied ==
    \A g \in Generators :
        pc[g] # "Uninitialized" =>
            /\ ("object_store_gateway_access_grant_id" \in DOMAIN attributes[g])
                   <=> (Len(IdsSupplied(g)) >= 1)
            /\ pc[g] = "Finalized" =>
                   Occurrences(output[g], "object_store_gateway_access_grant_id")
                       = (IF Len(IdsSupplied(g)) >= 1 THEN 1 ELSE 0)

\* One generator finalized without an id, another finalized with the empty
\* string as its id.
C6_Witness ==
    \E g, h \in Generators :
        /\ pc[g] = "Finalized"
        /\ Len(IdsSupplied(g)) = 0
        /\ Len(output[g]) = 3
        /\ pc[h] = "Finalized"
        /\ Len(IdsSupplied(h)) = 1
        /\ <<"object_store_gateway_access_grant_id", "">> \in Pairs(output[h])

(***************************************************************************)
(* C7: every finalized sequence has pairwise distinct keys, has each of    *)
(* the three mandatory keys exactly once, has no key beside these and the  *)
(* access grant id key, has access_grant or access_revoke as its event     *)
(* type, and is as long as the generator has attributes, 3 or 4.           *)
(***************************************************************************)
C7_FinalizedSetWellFormed ==
    \A g \in Generators :
        pc[g] = "Finalized" =>
            LET items == output[g]
            IN  /\ \A m, n \in 1..Len(items) : m # n => items[m][1] # items[n][1]
                /\ Occurrences(items, "object_store_gateway_event_type") = 1
                /\ Occurrences(items, "object_store_gateway_scope_address") = 1
                /\ Occurrences(items, "object_store_gateway_target_account_address") = 1
                /\ Occurrences(items, "object_store_gateway_access_grant_id") <= 1
                /\ \A n \in 1..Len(items) :
                       items[n][1] \in { "object_store_gateway_event_type",
                                         "object_store_gateway_scope_address",
                                         "object_store_gateway_target_account_address",
                                         "object_store_gateway_access_grant_id" }
                /\ ValuesOf(items, "object_store_gateway_event_type")
                       \subseteq {"access_grant", "access_revoke"}
                /\ Len(items) = BTreeMap_len(attributes[g])
                /\ Len(items) \in {3, 4}

\* A sequence of three pairs and one of four pairs whose scope, target and
\* id are all the same string.
C7_Witness ==
    \E g, h \in Generators :
        /\ pc[g] = "Finalized"
        /\ Len(output[g]) = 3
        /\ pc[h] = "Finalized"
        /\ Len(output[h]) = 4
        /\ ValuesOf(output[h], "object_store_gateway_scope_address") = {""}
        /\ ValuesOf(output[h], "object_store_gateway_target_account_address") = {""}
        /\ ValuesOf(output[h], "object_store_gateway_access_grant_id") = {""}

(***************************************************************************)
(* C8: no operation can fail.  A generator is always in one of the three   *)
(* states of its life; both constructors accept every pair of arguments;   *)
(* on a generator the caller owns, with_access_grant_id accepts every id   *)
(* and finalization is possible, right after the constructor as well as    *)
(* after any number of with_access_grant_id calls.                         *)
(***************************************************************************)
C8_NoFailure ==
    \A g \in Generators :
        /\ pc[g] \in {"Uninitialized", "Populated", "Finalized"}
        /\ pc[g] = "Uninitialized" =>
               \A s, t \in Addresses :
                   /\ ENABLED AccessGrant(g, s, t)
                   /\ ENABLED AccessRevoke(g, s, t)
        /\ pc[g] = "Populated" =>
               \* IntoIter(g) is enabled: into_iter has a sequence to hand out.
               /\ \E items \in into_iter(attributes[g]) :
                      Len(items) = BTreeMap_len(attributes[g])
               /\ IdCalls(g) < MaxIdCalls =>
                      \A id \in GrantIds : ENABLED WithAccessGrantId(g, id)

\* One generator fresh from its constructor, one that has been given two
\* ids, the last of them empty; both can be finalized.
C8_Witness ==
    \E g, h \in Generators :
        /\ pc[g] = "Populated"
        /\ Len(calls[g]) = 1
        /\ Len(IdsSupplied(g)) < MaxIdCalls
        /\ ENABLED WithAccessGrantId(g, "")
        /\ into_iter(attributes[g]) # {}
        /\ pc[h] = "Populated"
        /\ Len(IdsSupplied(h)) = 2
        /\ attributes[h]["object_store_gateway_access_grant_id"] = ""
        /\ into_iter(attributes[h]) # {}

(***************************************************************************)
(* C9: the life of a generator.  Its first call is one of the two          *)
(* constructors, so a generator that exists always has the three mandatory *)
(* attributes; then come with_access_grant_id calls only; into_iter occurs *)
(* at most once, as the last call, and nothing is called after it.         *)
(***************************************************************************)
C9_Lifecycle ==
    \A g \in Generators :
        /\ pc[g] = "Uninitialized" <=> calls[g] = <<>>
        /\ pc[g] # "Uninitialized" =>
               /\ calls[g][1][1] \in {"access_grant", "access_revoke"}
               /\ { "object_store_gateway_event_type",
                    "object_store_gateway_scope_address",
                    "object_store_gateway_target_account_address" }
                      \subseteq DOMAIN attributes[g]
               /\ \A n \in 2..Len(calls[g]) :
                      \/ calls[g][n][1] = "with_access_grant_id"
                      \/ n = Len(calls[g]) /\ calls[g][n][1] = "into_iter"
               /\ pc[g] = "Finalized" <=> calls[g][Len(calls[g])][1] = "into_iter"
               /\ pc[g] = "Finalized" <=> output[g] # <<>>

\* A generator that went through the whole life: constructor, two
\* with_access_grant_id calls, into_iter.
C9_Witness ==
    \E g \in Generators :
        /\ pc[g] = "Finalized"
        /\ Len(calls[g]) = 4
        /\ calls[g][1][1] = "access_revoke"
        /\ calls[g][2][1] = "with_access_grant_id"
        /\ calls[g][3][1] = "with_access_grant_id"
        /\ calls[g][4][1] = "into_iter"

(***************************************************************************)
(* C10: OS_GATEWAY_KEYS has exactly four fields, holding four different    *)
(* literals, and each field is the key under which the generator emits     *)
(* the attribute of that name (the constant of attribute_consts.rs).       *)
(***************************************************************************)
C10_KeyRegistry ==
    /\ OS_GATEWAY_KEYS =
           [ event_type      |-> "object_store_gateway_event_type",
             scope_address   |-> "object_store_gateway_scope_address",
             target_account  |-> "object_store_gateway_target_account_address",
             access_grant_id |-> "object_store_gateway_access_grant_id" ]
    /\ Cardinality({OS_GATEWAY_KEYS[f] : f \in DOMAIN OS_GATEWAY_KEYS}) = 4
    /\ OS_GATEWAY_KEYS.event_type = EVENT_TYPE_KEY
    /\ OS_GATEWAY_KEYS.scope_address = SCOPE_ADDRESS_KEY
    /\ OS_GATEWAY_KEYS.target_account = TARGET_ACCOUNT_KEY
    /\ OS_GATEWAY_KEYS.access_grant_id = ACCESS_GRANT_ID_KEY
    /\ \A g \in Generators :
           pc[g] = "Finalized" =>
               /\ {output[g][n][1] : n \in 1..Len(output[g])}
                      \subseteq {OS_GATEWAY_KEYS[f] : f \in DOMAIN OS_GATEWAY_KEYS}
               /\ ValuesOf(output[g], OS_GATEWAY_KEYS.event_type) = {KindLiteral(g)}
               /\ ValuesOf(output[g], OS_GATEWAY_KEYS.scope_address) = {calls[g][1][2]}
               /\ ValuesOf(output[g], OS_GATEWAY_KEYS.target_account) = {calls[g][1][3]}
               /\ ValuesOf(output[g], OS_GATEWAY_KEYS.access_grant_id) =
                      {IdsSupplied(g)[n][2] : n \in {Len(IdsSupplied(g))} \ {0}}

\* A finalized sequence with all four keys whose scope and target differ.
C10_Witness ==
    \E g \in Generators :
        /\ pc[g] = "Finalized"
        /\ Len(output[g]) = 4
        /\ calls[g][1][2] # calls[g][1][3]
        /\ ValuesOf(output[g], OS_GATEWAY_KEYS.scope_address) = {calls[g][1][2]}

(***************************************************************************)
(* C11: OS_GATEWAY_EVENT_TYPES has exactly two fields, holding the two     *)
(* different literals access_grant and access_revoke, and the event type   *)
(* that a generator built by access_grant (access_revoke) holds and emits  *)
(* is the field access_grant (access_revoke) of the catalog.               *)
(***************************************************************************)
C11_EventTypeCatalog ==
    /\ OS_GATEWAY_EVENT_TYPES =
           [ access_grant  |-> "access_grant",
             access_revoke |-> "access_revoke" ]
    /\ OS_GATEWAY_EVENT_TYPES.access_grant # OS_GATEWAY_EVENT_TYPES.access_revoke
    /\ OS_GATEWAY_EVENT_TYPES.access_grant = ACCESS_GRANT_VALUE
    /\ OS_GATEWAY_EVENT_TYPES.access_revoke = ACCESS_REVOKE_VALUE
    /\ \A g \in Generators :
           pc[g] # "Uninitialized" =>
               LET expected == IF calls[g][1][1] = "access_grant"
                               THEN OS_GATEWAY_EVENT_TYPES.access_grant
                               ELSE OS_GATEWAY_EVENT_TYPES.access_revoke
               IN  /\ attributes[g]["object_store_gateway_event_type"] = expected
                   /\ pc[g] = "Finalized" =>
                          ValuesOf(output[g], "object_store_gateway_event_type")
                              = {expected}

\* A finalized grant and a finalized revoke, emitting the two catalog values.
C11_Witness ==
    \E g, h \in Generators :
        /\ pc[g] = "Finalized"
        /\ calls[g][1][1] = "access_grant"
        /\ <<"object_store_gateway_event_type", OS_GATEWAY_EVENT_TYPES.access_grant>>
               \in Pairs(output[g])
        /\ pc[h] = "Finalized"
        /\ calls[h][1][1] = "access_revoke"
        /\ <<"object_store_gateway_event_type", OS_GATEWAY_EVENT_TYPES.access_revoke>>
               \in Pairs(output[h])

(***************************************************************************)
(* C12: every with_access_grant_id call, on a grant as on a revoke         *)
(* generator, leaves the generator populated and changes nothing but the   *)
(* access grant id: the event type, scope address and target account keep  *)
(* their values, and no other key appears or disappears.                   *)
(***************************************************************************)
C12_SetterChangesOnlyId ==
    [][ \A g \in Generators :
            ( /\ pc[g] = "Populated"
              /\ Len(calls'[g]) = Len(calls[g]) + 1
              /\ calls'[g][Len(calls'[g])][1] = "with_access_grant_id" ) =>
                /\ pc'[g] = "Populated"
                /\ DOMAIN attributes'[g] =
                       DOMAIN attributes[g] \cup {"object_store_gateway_access_grant_id"}
                /\ \A k \in { "object_store_gateway_event_type",
                              "object_store_gateway_scope_address",
                              "object_store_gateway_target_account_address" } :
                       attributes'[g][k] = attributes[g][k]
      ]_vars

\* A grant and a revoke generator, each after two with_access_grant_id calls,
\* still with the event type and the addresses of their constructor.
C12_Witness ==
    \E g, h \in Generators :
        /\ pc[g] = "Populated"
        /\ pc[h] = "Populated"
        /\ calls[g][1] = <<"access_grant", "access_revoke", "">>
        /\ calls[h][1] = <<"access_revoke", "", "access_revoke">>
        /\ \A x \in {g, h} :
               /\ Len(IdsSupplied(x)) = 2
               /\ attributes[x]["object_store_gateway_event_type"] = calls[x][1][1]
               /\ attributes[x]["object_store_gateway_scope_address"] = calls[x][1][2]
               /\ attributes[x]["object_store_gateway_target_account_address"] = calls[x][1][3]

\* once is a finalized generator's calls ending in with_access_grant_id(x),
\* into_iter; twice is the same calls with with_access_grant_id(x) repeated.
RepeatsLastId(once, twice) ==
    /\ Len(once) >= 3
    /\ once[Len(once) - 1][1] = "with_access_grant_id"
    /\ twice = SubSeq(once, 1, Len(once) - 1)
                   \o << once[Len(once) - 1], once[Len(once)] >>

(***************************************************************************)
(* C13: with_access_grant_id is idempotent.  On every generator state and  *)
(* for every id, applying the setter twice with the id gives the state     *)
(* that applying it once gives, and the two finalize to the same sequence. *)
(***************************************************************************)
C13_SetterIdempotent ==
    /\ \A g \in Generators :
           pc[g] # "Uninitialized" =>
               \A x \in GrantIds :
                   with_access_grant_id(with_access_grant_id(attributes[g], x), x)
                       = with_access_grant_id(attributes[g], x)
    /\ \A g, h \in Generators :
           (pc[g] = "Finalized" /\ pc[h] = "Finalized" /\ RepeatsLastId(calls[g], calls[h])) =>
               output[h] = output[g]

\* A generator finalized after with_access_grant_id with a non-empty id, and
\* one finalized after the same calls with the setter applied twice.
C13_Witness ==
    \E g, h \in Generators :
        /\ pc[g] = "Finalized"
        /\ pc[h] = "Finalized"
        /\ RepeatsLastId(calls[g], calls[h])
        /\ IdsSupplied(h) =
               << <<"with_access_grant_id", "object_store_gateway_access_grant_id">>,
                  <<"with_access_grant_id", "object_store_gateway_access_grant_id">> >>
        /\ Len(output[h]) = 4
        /\ output[h] = output[g]

(***************************************************************************)
(* C14: arguments are stored as they are given, without validation or      *)
(* normalisation: the empty string, equal scope and target, a key literal  *)
(* or an event-type literal as value.  access_grant("", "") finalizes to   *)
(* three pairs with access_grant and two empty values, and an empty id     *)
(* still gives a fourth pair, whose value is the empty string.             *)
(***************************************************************************)
Holds(map, key, value) == key \in DOMAIN map /\ map[key] = value

C14_ValuesStoredAsIs ==
    \A g \in Generators :
        pc[g] # "Uninitialized" =>
            /\ Holds(attributes[g], "object_store_gateway_scope_address", calls[g][1][2])
            /\ Holds(attributes[g], "object_store_gateway_target_account_address", calls[g][1][3])
            /\ Len(IdsSupplied(g)) >= 1 =>
                   Holds(attributes[g], "object_store_gateway_access_grant_id",
                         IdsSupplied(g)[Len(IdsSupplied(g))][2])
            /\ calls[g] = << <<"access_grant", "", "">>, <<"into_iter">> >> =>
                   output[g] = << <<"object_store_gateway_event_type", "access_grant">>,
                                  <<"object_store_gateway_scope_address", "">>,
                                  <<"object_store_gateway_target_account_address", "">> >>
            /\ ( /\ pc[g] = "Finalized"
                 /\ Len(IdsSupplied(g)) >= 1
                 /\ IdsSupplied(g)[Len(IdsSupplied(g))][2] = "" ) =>
                   /\ Len(output[g]) = 4
                   /\ output[g][1] = <<"object_store_gateway_access_grant_id", "">>

\* access_grant("", "") finalized as it is, and a generator whose scope and
\* target are both the revoke literal, finalized after the id was set to the
\* id key literal and then to the empty string.
C14_Witness ==
    \E g, h \in Generators :
        /\ pc[g] = "Finalized"
        /\ calls[g] = << <<"access_grant", "", "">>, <<"into_iter">> >>
        /\ Len(output[g]) = 3
        /\ pc[h] = "Finalized"
        /\ calls[h] = << <<"access_grant", "access_revoke", "access_revoke">>,
                         <<"with_access_grant_id", "object_store_gateway_access_grant_id">>,
                         <<"with_access_grant_id", "">>,
                         <<"into_iter">> >>
        /\ output[h] = << <<"object_store_gateway_access_grant_id", "">>,
                          <<"object_store_gateway_event_type", "access_grant">>,
                          <<"object_store_gateway_scope_address", "access_revoke">>,
                          <<"object_store_gateway_target_account_address", "access_revoke">> >>

(***************************************************************************)
(* C15: the sequence finalized from an OsGatewayEventAttributes value of   *)
(* lib.rs has its keys in ascending byte-wise order, whatever the order of *)
(* insertion, and two such values built by the same calls finalize to the  *)
(* same sequence.                                                          *)
(***************************************************************************)
C15_EventAttributesOrdered ==
    /\ \A e \in EventAttributes :
           pc[e] = "Finalized" =>
               \A n \in 1..(Len(output[e]) - 1) :
                   str_lt(output[e][n][1], output[e][n + 1][1])
    /\ \A e, f \in EventAttributes :
           (pc[e] = "Finalized" /\ pc[f] = "Finalized" /\ calls[e] = calls[f]) =>
               output[e] = output[f]

\* The calls made on a builder before its finalization.
Building(b) == SelectSeq(calls[b], LAMBDA c : c[1] # "into_iter")

(***************************************************************************)
(* C16: an OsGatewayEventAttributes value and an                           *)
(* OsGatewayAttributeGenerator built by the same constructor with the same *)
(* scope and target and given the same ids hold the same key/value pairs   *)
(* after every call, and their finalized sequences have the same pairs     *)
(* and the same length: they differ in the order of the pairs at most.     *)
(***************************************************************************)
C16_SameContent ==
    \A e \in EventAttributes :
        Building(e) = Building("g1") =>
            /\ {<<k, attributes[e][k]>> : k \in DOMAIN attributes[e]}
                   = {<<k, attributes["g1"][k]>> : k \in DOMAIN attributes["g1"]}
            /\ (pc[e] = "Finalized" /\ pc["g1"] = "Finalized") =>
                   /\ Pairs(output[e]) = Pairs(output["g1"])
                   /\ Len(output[e]) = Len(output["g1"])

\* Both implementations finalized after a revoke constructor and two ids:
\* the same four pairs, in different orders.
C16_Witness ==
    /\ pc["e1"] = "Finalized"
    /\ pc["g1"] = "Finalized"
    /\ calls["g1"][1][1] = "access_revoke"
    /\ Len(IdsSupplied("g1")) = 2
    /\ Building("e1") = Building("g1")
    /\ Len(output["g1"]) = 4
    /\ Pairs(output["e1"]) = Pairs(output["g1"])
    /\ output["e1"] # output["g1"]

====
